---- MODULE Spec2Model ----
(***************************************************************************)
(* The configuration store of gate4ai/mcp (package config, type            *)
(* YamlConfig).  The repository holds two implementations of the store:    *)
(*   "acme"    shared/config/yaml.go  (SSL and A2A fields, no watcher)     *)
(*   "watcher" unnamed/part_000       (file watcher, no SSL/A2A fields)    *)
(* The variable impl says which one a behaviour runs; it never changes.    *)
(***************************************************************************)
EXTENDS Integers, Sequences, FiniteSets, TLC

VARIABLES
    impl,       \* which implementation of YamlConfig is built
    file,       \* content of the file at c.configPath
    c,          \* the YamlConfig struct: the live snapshot fields
    mu,         \* c.mu (sync.RWMutex): [writer, readers]
    upd,        \* per thread: its position in Update() and Update's locals
    rd,         \* per reader thread: its position in an accessor and what it got
    w,          \* the watcher fields of the struct, c.watcherMu and the channels made
    go,         \* per watcher goroutine: its position in the loop and its locals
    now,        \* time.Now(), in units of the debounce interval
    mtime,      \* the file's modification time
    ctl,        \* per controlling thread: its position in StartWatcher/StopWatcher
    task,       \* the backend's record of the task (the authoritative state)
    rpc,        \* per client thread: its SendTask / GetTask / CancelTask call
    stream      \* the subscription SendTaskSubscribe opened

wvars == <<w, go, now, mtime, ctl>>
tvars == <<task, rpc, stream>>
cvars == <<impl, file, c, mu, upd, rd, w, go, now, mtime, ctl>>
vars == <<impl, file, c, mu, upd, rd, w, go, now, mtime, ctl, task, rpc, stream>>

----------------------------------------------------------------------------
(* Values *)

None == "none_"
Nil == "nil"
ErrNotFound == "ErrNotFound"
ErrRead == "ErrRead"       \* os.ReadFile failed
ErrParse == "ErrParse"     \* yaml.Unmarshal failed

Missing == "missing_"      \* no readable file at configPath
Malformed == "malformed_"  \* a file that yaml.Unmarshal rejects

AuthorizedUsersOnly == "AuthorizedUsersOnly"
NotAuthorizedToMarkedMethods == "NotAuthorizedToMarkedMethods"
NotAuthorizedEverywhere == "NotAuthorizedEverywhere"

Range(s) == {s[i] : i \in DOMAIN s}

(* Strings the code compares character by character (authorization, ssl    *)
(* mode) are sequences of one-character strings.                            *)
UpperLetters == <<"A","B","C","D","E","F","G","H","I","J","K","L","M",
                  "N","O","P","Q","R","S","T","U","V","W","X","Y","Z">>
LowerLetters == <<"a","b","c","d","e","f","g","h","i","j","k","l","m",
                  "n","o","p","q","r","s","t","u","v","w","x","y","z">>

LowerChar(ch) ==
    IF \E i \in DOMAIN UpperLetters : UpperLetters[i] = ch
    THEN LowerLetters[CHOOSE i \in DOMAIN UpperLetters : UpperLetters[i] = ch]
    ELSE ch

ToLower(s) == [i \in DOMAIN s |-> LowerChar(s[i])]

StrUsersOnly == <<"u","s","e","r","s","_","o","n","l","y">>
StrMarkedMethods == <<"m","a","r","k","e","d","_","m","e","t","h","o","d","s">>
StrNone == <<"n","o","n","e">>
StrNoneCapital == <<"N","o","n","e">>
StrEmpty == <<>>
StrManual == <<"m","a","n","u","a","l">>
StrAcme == <<"a","c","m","e">>
StrAcmeUpper == <<"A","C","M","E">>
StrAuto == <<"a","u","t","o">>

DefaultAcmeCacheDir == "./.autocert-cache"

----------------------------------------------------------------------------
(* The backing source: what yaml.Unmarshal yields for the documents the     *)
(* model writes to the file (struct yamlConfig).                            *)

NoUsers == [u \in {} |-> [keys |-> <<>>, subscribes |-> <<>>]]
NoBackends == [s \in {} |-> [url |-> "", bearer |-> ""]]
\* yamlCfg.Server.A2A == nil
NoA2A ==
    [present |-> FALSE, name |-> "", description |-> Nil, version |-> "",
     defaultInputModes |-> <<>>, defaultOutputModes |-> <<>>]

\* (an ssl mode that is neither "manual" nor "acme")
DocOne ==
    [address |-> "addr1", name |-> "one", infoHandler |-> "/info1",
     authorization |-> StrUsersOnly,
     sslMode |-> StrAuto, sslAcmeDomains |-> <<>>, sslAcmeCacheDir |-> "",
     a2a |-> NoA2A,
     users |-> ("alice" :> [keys |-> <<"k1">>, subscribes |-> <<"s1">>]),
     backends |-> ("s1" :> [url |-> "url1", bearer |-> "b1"])]

\* One key hash listed under two users, the empty string listed as a key,
\* a capitalised authorization and ssl mode, an a2a section.
DocTwo ==
    [address |-> "addr2", name |-> "two", infoHandler |-> "/info2",
     authorization |-> StrNoneCapital,
     sslMode |-> StrAcmeUpper, sslAcmeDomains |-> <<"d2">>, sslAcmeCacheDir |-> "/cache2",
     a2a |-> [present |-> TRUE, name |-> "agent2", description |-> "about2",
              version |-> "", defaultInputModes |-> <<>>,
              defaultOutputModes |-> <<"json">>],
     users |-> ("alice" :> [keys |-> <<"k2">>, subscribes |-> <<"s2", "s1">>])
               @@ ("bob" :> [keys |-> <<"k2", "">>, subscribes |-> <<>>]),
     backends |-> ("s2" :> [url |-> "url2", bearer |-> "b2"])]

DocThree ==
    [address |-> "addr3", name |-> "three", infoHandler |-> "/info3",
     authorization |-> StrMarkedMethods,
     sslMode |-> StrManual, sslAcmeDomains |-> <<>>, sslAcmeCacheDir |-> "",
     a2a |-> NoA2A,
     users |-> ("bob" :> [keys |-> <<"k1">>, subscribes |-> <<"s2">>]),
     backends |-> ("s1" :> [url |-> "url3", bearer |-> "b3"])
                  @@ ("s2" :> [url |-> "url3", bearer |-> "b3"])]

\* An empty file: yaml.Unmarshal leaves the zero yamlConfig.
DocEmpty ==
    [address |-> "", name |-> "", infoHandler |-> "", authorization |-> StrEmpty,
     sslMode |-> StrEmpty, sslAcmeDomains |-> <<>>, sslAcmeCacheDir |-> "",
     a2a |-> NoA2A, users |-> NoUsers, backends |-> NoBackends]

Docs == {DocOne, DocTwo, DocEmpty}

\* What the file holds: a document, nothing readable, or text that does not parse.
FileOf(d) == [kind |-> "doc", doc |-> d]
MissingFile == [kind |-> Missing, doc |-> DocEmpty]
MalformedFile == [kind |-> Malformed, doc |-> DocEmpty]
Contents == {FileOf(d) : d \in Docs} \cup {MissingFile, MalformedFile}
\* A save under way: the file was truncated (or created) and its content is
\* not written yet; what is there reads and parses, as the zero yamlConfig.
TruncatedFile == [kind |-> "truncated", doc |-> DocEmpty]

\* Arguments the model's readers pass ("k9", "s9", "zed" occur in no document).
KeyHashes == {"", "k1", "k2", "k9"}
Slugs == {"s1", "s9"}
UserIDs == {"alice", "zed"}

Perms(S) ==
    {f \in [1..Cardinality(S) -> S] : \A x \in S : \E i \in DOMAIN f : f[i] = x}

----------------------------------------------------------------------------
(* Update(), section by section.  Each operator is the struct after the     *)
(* section's assignments.                                                   *)

\* The struct NewYamlConfigWithOptions builds before its first Update().
NewYamlConfig(i) ==
    [serverAddress |-> "", serverName |-> "", infoHandlerValue |-> "",
     authorizationType |-> AuthorizedUsersOnly,
     userKeyHashes |-> <<>>, userParams |-> <<>>,
     userSubscribes |-> <<>>, backends |-> <<>>,
     sslMode |-> IF i = "acme" THEN StrManual ELSE StrEmpty,
     sslAcmeDomains |-> <<>>,
     sslAcmeCacheDir |-> IF i = "acme" THEN DefaultAcmeCacheDir ELSE "",
     a2aAgentNameValue |-> "", a2aAgentDescriptionValue |-> Nil,
     a2aAgentVersionValue |-> "",
     a2aDefaultInputModesValue |-> <<>>, a2aDefaultOutputModesValue |-> <<>>]

\* yaml.go: switch strings.ToLower(yamlCfg.Server.Authorization)
AuthorizationTypeAcme(s) ==
    LET key == ToLower(s) IN
    CASE key = StrUsersOnly -> AuthorizedUsersOnly
      [] key = StrMarkedMethods -> NotAuthorizedToMarkedMethods
      [] key = StrNone -> NotAuthorizedEverywhere
      [] OTHER -> AuthorizedUsersOnly

\* part_000: switch yamlCfg.Server.Authorization
AuthorizationTypeWatcher(s) ==
    CASE s = StrUsersOnly -> AuthorizedUsersOnly
      [] s = StrMarkedMethods -> NotAuthorizedToMarkedMethods
      [] s = StrNone -> NotAuthorizedEverywhere
      [] OTHER -> AuthorizedUsersOnly

ServerSection(i, cc, y) ==
    [cc EXCEPT !.serverAddress = y.address,
               !.serverName = y.name,
               !.infoHandlerValue = y.infoHandler,
               !.authorizationType =
                   IF i = "acme" THEN AuthorizationTypeAcme(y.authorization)
                   ELSE AuthorizationTypeWatcher(y.authorization)]

\* The SSL section stored as the source has it, no mode or cache dir default.
SSLSectionVerbatim(cc, y) ==
    [cc EXCEPT !.sslMode = ToLower(y.sslMode),
               !.sslAcmeDomains = y.sslAcmeDomains,
               !.sslAcmeCacheDir = y.sslAcmeCacheDir]

SSLSection(cc, y) ==
    [cc EXCEPT !.sslMode = IF ToLower(y.sslMode) # StrAcme THEN StrManual ELSE StrAcme,
               !.sslAcmeDomains = y.sslAcmeDomains,
               !.sslAcmeCacheDir = IF y.sslAcmeCacheDir = "" THEN DefaultAcmeCacheDir
                                   ELSE y.sslAcmeCacheDir]

\* Variant: a source without the a2a section leaves the A2A fields alone.
A2ASectionIfPresent(cc, y) ==
    IF y.a2a.present
    THEN [cc EXCEPT !.a2aAgentNameValue = y.a2a.name,
                    !.a2aAgentDescriptionValue = y.a2a.description,
                    !.a2aAgentVersionValue = y.a2a.version,
                    !.a2aDefaultInputModesValue = y.a2a.defaultInputModes,
                    !.a2aDefaultOutputModesValue = y.a2a.defaultOutputModes]
    ELSE cc

A2ASection(cc, y) ==
    IF y.a2a.present
    THEN [cc EXCEPT !.a2aAgentNameValue = y.a2a.name,
                    !.a2aAgentDescriptionValue = y.a2a.description,
                    !.a2aAgentVersionValue = y.a2a.version,
                    !.a2aDefaultInputModesValue = y.a2a.defaultInputModes,
                    !.a2aDefaultOutputModesValue = y.a2a.defaultOutputModes]
    ELSE [cc EXCEPT !.a2aAgentNameValue = "",
                    !.a2aAgentDescriptionValue = Nil,
                    !.a2aAgentVersionValue = "",
                    !.a2aDefaultInputModesValue = <<>>,
                    !.a2aDefaultOutputModesValue = <<>>]

\* The key hashes of a users section, and the index the loop over the Go map
\* builds when it visits the users in `order`: a later user overwrites.
KeysOf(users) == UNION {Range(users[u].keys) : u \in DOMAIN users}

KeyIndex(users, order) ==
    [k \in KeysOf(users) |->
        LET at == {j \in DOMAIN order : k \in Range(users[order[j]].keys)}
        IN  order[CHOOSE j \in at : \A j2 \in at : j2 <= j]]

\* Variant: the users loop writes into the maps of the previous snapshot.
UsersSectionInPlace(cc, y, order) ==
    [cc EXCEPT !.userKeyHashes = KeyIndex(y.users, order) @@ cc.userKeyHashes,
               !.userSubscribes =
                   [u \in {v \in DOMAIN y.users : Len(y.users[v].subscribes) > 0}
                       |-> y.users[u].subscribes] @@ cc.userSubscribes]

UsersSection(cc, y, order) ==
    [cc EXCEPT !.userKeyHashes = KeyIndex(y.users, order),
               !.userSubscribes =
                   [u \in {v \in DOMAIN y.users : Len(y.users[v].subscribes) > 0}
                       |-> y.users[u].subscribes]]

BackendsSection(cc, y) ==
    [cc EXCEPT !.backends =
        [s \in DOMAIN y.backends |->
            [URL |-> y.backends[s].url, Bearer |-> y.backends[s].bearer]]]

\* A whole successful Update() of document y, users visited in `order`.
Installed(i, cc, y, order) ==
    LET c1 == ServerSection(i, cc, y)
        c2 == IF i = "acme" THEN A2ASection(SSLSection(c1, y), y) ELSE c1
    IN  BackendsSection(UsersSection(c2, y, order), y)

----------------------------------------------------------------------------
(* The read accessors.  Each operator is the set of results (value, error)  *)
(* a call can return in the current state; a reader holds the shared lock   *)
(* while it evaluates one.                                                  *)

Str(v) == [kind |-> "str", v |-> v]
Copy(v) == [kind |-> "copy", v |-> v]           \* a fresh slice, map or struct
Ptr(s) == [kind |-> "ptr", slug |-> s, live |-> TRUE]  \* the *Backend in c.backends[s]
NilPtr == [kind |-> "nil"]
Res(val, err) == [val |-> val, err |-> err]

\* yaml.go GetUserIDByKeyHash: a lookup in c.userKeyHashes.
GetUserIDByKeyHashAcme(keyHash) ==
    IF keyHash = "" THEN {Res(Str(""), Nil)}
    ELSE IF keyHash \in DOMAIN c.userKeyHashes
         THEN {Res(Str(c.userKeyHashes[keyHash]), Nil)}
         ELSE {Res(Str(""), ErrNotFound)}

\* part_000 GetUserIDByKeyHash: reads and parses the file again and returns
\* the first user, in the map's iteration order, that lists the hash.
GetUserIDByKeyHashWatcher(keyHash) ==
    IF file.kind = Missing THEN {Res(Str(""), ErrRead)}
    ELSE IF file.kind = Malformed THEN {Res(Str(""), ErrParse)}
    ELSE LET users == file.doc.users
             found == {u \in DOMAIN users : keyHash \in Range(users[u].keys)}
         IN  IF found # {} THEN {Res(Str(u), Nil) : u \in found}
             ELSE {Res(Str(""), Nil)}

GetUserIDByKeyHash(keyHash) ==
    IF impl = "acme" THEN GetUserIDByKeyHashAcme(keyHash)
    ELSE GetUserIDByKeyHashWatcher(keyHash)

\* yaml.go GetBackendBySlug: a copy of the Backend.
GetBackendBySlug(backendID) ==
    IF backendID \in DOMAIN c.backends
    THEN {Res(Copy(c.backends[backendID]), Nil)}
    ELSE {Res(NilPtr, ErrNotFound)}

\* part_000 GetBackend: the pointer stored in the map.
GetBackend(backendID) ==
    IF backendID \in DOMAIN c.backends
    THEN {Res(Ptr(backendID), Nil)}
    ELSE {Res(NilPtr, ErrNotFound)}

ResolveBackend(slug) ==
    IF impl = "acme" THEN GetBackendBySlug(slug) ELSE GetBackend(slug)

GetUserSubscribes(userID) ==
    IF userID \in DOMAIN c.userSubscribes
    THEN {Res(Copy(c.userSubscribes[userID]), Nil)}
    ELSE {Res(Copy(<<>>), Nil)}

GetUserParams(userID) ==
    IF userID \in DOMAIN c.userParams
    THEN {Res(Copy(c.userParams[userID]), Nil)}
    ELSE {Res(Copy(<<>>), Nil)}

AuthorizationType == {Res(Str(c.authorizationType), Nil)}

SSLAcmeDomains == {Res(Copy(c.sslAcmeDomains), Nil)}

\* yaml.go GetA2ACardBaseInfo: the stored fields, with the defaults put in
\* for an empty name, version or mode list.
GetA2ACardBaseInfo ==
    {Res(Copy([Name |-> IF c.a2aAgentNameValue = "" THEN "Gate4AI A2A Agent"
                        ELSE c.a2aAgentNameValue,
               Description |-> c.a2aAgentDescriptionValue,
               Version |-> IF c.a2aAgentVersionValue = "" THEN "1.0.0"
                           ELSE c.a2aAgentVersionValue,
               DefaultInputModes |-> IF Len(c.a2aDefaultInputModesValue) = 0
                                     THEN <<"text">> ELSE c.a2aDefaultInputModesValue,
               DefaultOutputModes |-> IF Len(c.a2aDefaultOutputModesValue) = 0
                                      THEN <<"text">> ELSE c.a2aDefaultOutputModesValue]),
         Nil)}

Calls ==
    {<<"GetUserIDByKeyHash", k>> : k \in KeyHashes}
    \cup {<<"GetBackend", s>> : s \in Slugs}
    \cup {<<"GetUserSubscribes", u>> : u \in UserIDs}
    \cup {<<"GetUserParams", "alice">>, <<"AuthorizationType", "">>}
    \cup {<<"SSLAcmeDomains", "">>}

Results(op, arg) ==
    CASE op = "GetUserIDByKeyHash" -> GetUserIDByKeyHash(arg)
      [] op = "GetBackend" -> ResolveBackend(arg)
      [] op = "GetUserSubscribes" -> GetUserSubscribes(arg)
      [] op = "GetUserParams" -> GetUserParams(arg)
      [] op = "AuthorizationType" -> AuthorizationType
      [] op = "SSLAcmeDomains" -> SSLAcmeDomains
      [] op = "GetA2ACardBaseInfo" -> GetA2ACardBaseInfo

\* What the object a pointer refers to looks like after its holder wrote to it.
Scribbled == [URL |-> "evil", Bearer |-> "evil"]

----------------------------------------------------------------------------
(* Threads, bounds and initial values *)

MaxStarts == 2          \* StartWatcher calls that start a goroutine, per behaviour
MaxEvents == 1          \* events a watcher's Events channel holds unread
WatchMaxTime == 2       \* where the clock stops under SpecWatcher
DebounceMaxTime == 4    \* where the clock stops under SpecDebounce
MinInterval == 1        \* the minInterval StartWatcher is given (1 * time.Second)

GoName == <<"g1", "g2", "g3", "g4">>

Callers == {"m1", "m2"}      \* threads that call Update() (Reload) directly
Readers == {"r1"}            \* threads that call the read accessors
Goroutines == {GoName[i] : i \in 1..MaxStarts}   \* the goroutines StartWatcher starts
Controllers == {"ctl", "ctl2"}   \* threads that call StartWatcher / StopWatcher
Operators == {"ctl"}         \* where one thread alone starts and stops the watcher
Updaters == Callers \cup Goroutines

\* What ResolveUser and ResolveBackend return, for every argument, right now.
Observed ==
    [user |-> [k \in KeyHashes |-> GetUserIDByKeyHash(k)],
     backend |-> [s \in Slugs |-> ResolveBackend(s)]]
NotObserved ==
    [user |-> [k \in KeyHashes |-> {}], backend |-> [s \in Slugs |-> {}]]

\* Update's locals: data is what os.ReadFile returned, res what the last call
\* returned; before records, for the length of a call's read and parse, what
\* the accessors returned when the call was made (history, not program state).
Idle == [pc |-> "idle", data |-> MissingFile, res |-> "-", before |-> NotObserved]
NoCall == [pc |-> "idle", op |-> "", arg |-> "", val |-> NilPtr, err |-> Nil]
Unlocked == [writer |-> None, readers |-> {}]

\* time.Time{}: earlier than every clock value by more than the interval
ZeroTime == 0 - MinInterval - 1

\* c.watcherDone before the first StartWatcher: a nil channel
NilChan == 0

\* A goroutine's locals; outcome records what became of the last event it
\* handled ("dropped", "ok", "failed"): history, not program state.
Unborn ==
    [pc |-> "unborn", done |-> NilChan, events |-> <<>>, currentTime |-> 0,
     outcome |-> "-"]
\* The watcher fields; closed, started and panicked record the channels made
\* and closed, and lastReload the time of the last reload the watcher decided
\* on (history, not program state).
NotWatching ==
    [isWatching |-> FALSE, watcherDone |-> NilChan, lastModified |-> ZeroTime,
     mu |-> None, closed |-> {}, started |-> 0, panicked |-> FALSE,
     lastReload |-> ZeroTime]
NoControl == [pc |-> "idle", last |-> "-"]

\* c.mu.Lock() / c.mu.Unlock() / c.mu.RLock() / c.mu.RUnlock()
CanLock == mu.writer = None /\ mu.readers = {}
Lock(t) == [mu EXCEPT !.writer = t]
Unlock(t) == [mu EXCEPT !.writer = None]
CanRLock == mu.writer = None
RLock(r) == [mu EXCEPT !.readers = @ \cup {r}]
RUnlock(r) == [mu EXCEPT !.readers = @ \ {r}]

----------------------------------------------------------------------------
(* Update(): one action per statement group, for thread t *)

\* A caller may call at any time; a watcher goroutine calls when it decided to.
CallsUpdate(t) ==
    \/ t \in Callers
    \/ t \in Goroutines /\ go[t].pc = "reload" /\ upd[t].res = "-"

\* Update() without c.mu.Lock(): the call proceeds whoever holds the lock.
UpdateLockNotTaken(t) ==
    /\ upd[t].pc = "idle"
    /\ CallsUpdate(t)
    /\ mu' = mu
    /\ upd' = [upd EXCEPT ![t] = [Idle EXCEPT !.pc = "read", !.before = Observed]]
    /\ UNCHANGED <<tvars, wvars, impl, file, c, rd>>

\* c.mu.Lock(); defer c.mu.Unlock()
UpdateLock(t) ==
    /\ upd[t].pc = "idle"
    /\ CallsUpdate(t)
    /\ CanLock
    /\ mu' = Lock(t)
    /\ upd' = [upd EXCEPT ![t] = [Idle EXCEPT !.pc = "read", !.before = Observed]]
    /\ UNCHANGED <<tvars, wvars, impl, file, c, rd>>

\* Update() that empties the credential index before it reads the file.
UpdateReadClearsFirst(t) ==
    /\ upd[t].pc = "read"
    /\ c' = [c EXCEPT !.userKeyHashes = <<>>]
    /\ IF file.kind = Missing
       THEN /\ upd' = [upd EXCEPT ![t] = [Idle EXCEPT !.res = ErrRead]]
            /\ mu' = Unlock(t)
       ELSE /\ upd' = [upd EXCEPT ![t].pc = "parse", ![t].data = file]
            /\ mu' = mu
    /\ UNCHANGED <<tvars, wvars, impl, file, rd>>

\* data, err := os.ReadFile(c.configPath); if err != nil { return err }
UpdateRead(t) ==
    /\ upd[t].pc = "read"
    /\ IF file.kind = Missing
       THEN /\ upd' = [upd EXCEPT ![t] = [Idle EXCEPT !.res = ErrRead]]
            /\ mu' = Unlock(t)
       ELSE /\ upd' = [upd EXCEPT ![t].pc = "parse", ![t].data = file]
            /\ mu' = mu
    /\ UNCHANGED <<tvars, wvars, impl, file, c, rd>>

\* if err := yaml.Unmarshal(data, &yamlCfg); err != nil { return err }
UpdateParse(t) ==
    /\ upd[t].pc = "parse"
    /\ IF upd[t].data.kind = Malformed
       THEN /\ upd' = [upd EXCEPT ![t] = [Idle EXCEPT !.res = ErrParse]]
            /\ mu' = Unlock(t)
       ELSE /\ upd' = [upd EXCEPT ![t].pc = "server", ![t].before = NotObserved]
            /\ mu' = mu
    /\ UNCHANGED <<tvars, wvars, impl, file, c, rd>>

\* the server fields and the authorization switch
UpdateServer(t) ==
    /\ upd[t].pc = "server"
    /\ c' = ServerSection(impl, c, upd[t].data.doc)
    /\ upd' = [upd EXCEPT ![t].pc = IF impl = "acme" THEN "ssl" ELSE "users"]
    /\ UNCHANGED <<tvars, wvars, impl, file, mu, rd>>

UpdateSSL(t) ==
    /\ upd[t].pc = "ssl"
    /\ c' = SSLSection(c, upd[t].data.doc)
    /\ upd' = [upd EXCEPT ![t].pc = "a2a"]
    /\ UNCHANGED <<tvars, wvars, impl, file, mu, rd>>

UpdateA2A(t) ==
    /\ upd[t].pc = "a2a"
    /\ c' = A2ASection(c, upd[t].data.doc)
    /\ upd' = [upd EXCEPT ![t].pc = "users"]
    /\ UNCHANGED <<tvars, wvars, impl, file, mu, rd>>

\* for userID, user := range yamlCfg.Users: the order is the map's
UpdateUsers(t) ==
    /\ upd[t].pc = "users"
    /\ \E order \in Perms(DOMAIN upd[t].data.doc.users) :
           c' = UsersSection(c, upd[t].data.doc, order)
    /\ upd' = [upd EXCEPT ![t].pc = "backends"]
    /\ UNCHANGED <<tvars, wvars, impl, file, mu, rd>>

\* A pointer a reader still holds keeps the Backend of the map just replaced.
Detached(call) ==
    IF call.val.kind = "ptr" THEN [call EXCEPT !.val.live = FALSE] ELSE call

UpdateBackends(t) ==
    /\ upd[t].pc = "backends"
    /\ c' = BackendsSection(c, upd[t].data.doc)
    /\ rd' = [r \in DOMAIN rd |-> Detached(rd[r])]
    /\ upd' = [upd EXCEPT ![t].pc = "return"]
    /\ UNCHANGED <<tvars, wvars, impl, file, mu>>

\* return nil (and the deferred Unlock)
UpdateReturn(t) ==
    /\ upd[t].pc = "return"
    /\ upd' = [upd EXCEPT ![t] = [Idle EXCEPT !.res = "ok"]]
    /\ mu' = Unlock(t)
    /\ UNCHANGED <<tvars, wvars, impl, file, c, rd>>

----------------------------------------------------------------------------
(* A reader thread r: one accessor call, then what it does with the result *)

\* c.mu.RLock(); defer c.mu.RUnlock()
ReaderCall(r, op, arg) ==
    /\ rd[r].pc = "idle"
    /\ CanRLock
    /\ mu' = RLock(r)
    /\ rd' = [rd EXCEPT ![r] = [NoCall EXCEPT !.pc = "in", !.op = op, !.arg = arg]]
    /\ UNCHANGED <<tvars, wvars, impl, file, c, upd>>

ReaderReturn(r) ==
    /\ rd[r].pc = "in"
    /\ \E res \in Results(rd[r].op, rd[r].arg) :
           rd' = [rd EXCEPT ![r].pc = "idle", ![r].val = res.val, ![r].err = res.err]
    /\ mu' = RUnlock(r)
    /\ UNCHANGED <<tvars, wvars, impl, file, c, upd>>

\* The caller writes to the value it was handed, to its own copy or through
\* the pointer to the Backend it points to, and is done with it.
MutateReturned(r) ==
    /\ rd[r].pc = "idle"
    /\ rd[r].val.kind \in {"copy", "ptr"}
    /\ rd' = [rd EXCEPT ![r] = NoCall]
    /\ c' = IF rd[r].val.kind = "ptr" /\ rd[r].val.live
            THEN [c EXCEPT !.backends[rd[r].val.slug] = Scribbled]
            ELSE c
    /\ UNCHANGED <<tvars, wvars, impl, file, mu, upd>>

\* part_000 SetListenAddr: c.mu.RLock(); defer c.mu.RUnlock()
SetListenAddrRLock(r, add) ==
    /\ impl = "watcher"
    /\ rd[r].pc = "idle"
    /\ CanRLock
    /\ mu' = RLock(r)
    /\ rd' = [rd EXCEPT ![r] = [NoCall EXCEPT !.pc = "set", !.op = "SetListenAddr",
                                              !.arg = add]]
    /\ UNCHANGED <<tvars, wvars, impl, file, c, upd>>

\* c.serverAddress = add, with the shared lock held, and the deferred RUnlock
SetListenAddr(r) ==
    /\ rd[r].pc = "set"
    /\ c' = [c EXCEPT !.serverAddress = rd[r].arg]
    /\ mu' = RUnlock(r)
    /\ rd' = [rd EXCEPT ![r].pc = "idle"]
    /\ UNCHANGED <<tvars, wvars, impl, file, upd>>

\* part_000 InfoHandler: return c.infoHandlerValue, nil; no lock is taken
InfoHandler(r) ==
    /\ impl = "watcher"
    /\ rd[r].pc = "idle"
    /\ rd' = [rd EXCEPT ![r] = [NoCall EXCEPT !.op = "InfoHandler",
                                              !.val = Str(c.infoHandlerValue)]]
    /\ UNCHANGED <<tvars, wvars, impl, file, c, mu, upd>>

----------------------------------------------------------------------------
(* StartWatcher / StopWatcher, called by thread p *)

\* c.watcherMu.Lock(); defer c.watcherMu.Unlock()
StartLock(p) ==
    /\ ctl[p].pc = "idle"
    /\ w.mu = None
    /\ w' = [w EXCEPT !.mu = p]
    /\ ctl' = [ctl EXCEPT ![p].pc = "start"]
    /\ UNCHANGED <<tvars, impl, file, c, mu, upd, rd, go, now, mtime>>

\* StartWatcher without `if c.isWatching { return nil }`.
StartWatcherAlways(p) ==
    /\ ctl[p].pc = "start"
    /\ w.started < MaxStarts
    /\ LET id == w.started + 1 IN
       /\ w' = [w EXCEPT !.mu = None,
                         !.watcherDone = id,
                         !.isWatching = TRUE,
                         !.started = id,
                         !.lastModified =
                             IF file.kind # Missing THEN mtime ELSE @]
       /\ go' = [go EXCEPT ![GoName[id]].pc = "add"]
    /\ ctl' = [ctl EXCEPT ![p] = [pc |-> "idle", last |-> "start"]]
    /\ UNCHANGED <<tvars, impl, file, c, mu, upd, rd, now, mtime>>

\* The body of StartWatcher up to `go func()`, and the return.
StartWatcher(p) ==
    /\ ctl[p].pc = "start"
    /\ \/ /\ w.isWatching                      \* return nil: already watching
          /\ w' = [w EXCEPT !.mu = None]
          /\ ctl' = [ctl EXCEPT ![p] = [pc |-> "idle", last |-> "start"]]
          /\ go' = go
       \/ /\ ~w.isWatching                     \* fsnotify.NewWatcher() failed
          /\ w' = [w EXCEPT !.mu = None]
          /\ ctl' = [ctl EXCEPT ![p] = [pc |-> "idle", last |-> "start_err"]]
          /\ go' = go
       \/ /\ ~w.isWatching
          /\ w.started < MaxStarts
          /\ LET id == w.started + 1 IN
             /\ w' = [w EXCEPT !.mu = None,
                               !.watcherDone = id,
                               !.isWatching = TRUE,
                               !.started = id,
                               !.lastModified =
                                   IF file.kind # Missing THEN mtime ELSE @]
             /\ go' = [go EXCEPT ![GoName[id]].pc = "add"]
          /\ ctl' = [ctl EXCEPT ![p] = [pc |-> "idle", last |-> "start"]]
    /\ UNCHANGED <<tvars, impl, file, c, mu, upd, rd, now, mtime>>

StopLock(p) ==
    /\ ctl[p].pc = "idle"
    /\ w.mu = None
    /\ w' = [w EXCEPT !.mu = p]
    /\ ctl' = [ctl EXCEPT ![p].pc = "stop"]
    /\ UNCHANGED <<tvars, impl, file, c, mu, upd, rd, go, now, mtime>>

\* StopWatcher that closes c.watcherDone without looking at c.isWatching.
StopWatcherUnguarded(p) ==
    /\ ctl[p].pc = "stop"
    /\ w' = [w EXCEPT !.mu = None,
                      !.isWatching = FALSE,
                      !.closed = @ \cup {w.watcherDone},
                      !.panicked = @ \/ w.watcherDone \in w.closed \cup {NilChan}]
    /\ ctl' = [ctl EXCEPT ![p] = [pc |-> "idle", last |-> "stop"]]
    /\ UNCHANGED <<tvars, impl, file, c, mu, upd, rd, go, now, mtime>>

\* if !c.isWatching { return }; close(c.watcherDone); c.isWatching = false
\* (close of a nil or of a closed channel panics)
StopWatcher(p) ==
    /\ ctl[p].pc = "stop"
    /\ w' = IF ~w.isWatching
            THEN [w EXCEPT !.mu = None]
            ELSE [w EXCEPT !.mu = None,
                           !.isWatching = FALSE,
                           !.closed = @ \cup {w.watcherDone},
                           !.panicked = @ \/ w.watcherDone \in w.closed \cup {NilChan}]
    /\ ctl' = [ctl EXCEPT ![p] = [pc |-> "idle", last |-> "stop"]]
    /\ UNCHANGED <<tvars, impl, file, c, mu, upd, rd, go, now, mtime>>

----------------------------------------------------------------------------
(* The goroutine g that StartWatcher starts *)

\* Entering the select statement evaluates c.watcherDone.
AtSelect(g) == [go[g] EXCEPT !.pc = "select", !.done = w.watcherDone, !.currentTime = 0]
\* return, and the deferred watcher.Close()
Exited == [Unborn EXCEPT !.pc = "exited"]

Alive(g) == go[g].pc \notin {"unborn", "exited"}

\* IsWatching(): c.isWatching, read with watcherMu held
IsWatching == w.isWatching
\* The goroutine's fsnotify watcher has the path added.
Added(g) == go[g].pc \notin {"unborn", "add", "exited"}

\* if err := watcher.Add(c.configPath); err != nil { return }
GoAdd(g) ==
    /\ go[g].pc = "add"
    /\ go' = [go EXCEPT ![g] = IF file.kind = Missing THEN Exited ELSE AtSelect(g)]
    /\ UNCHANGED <<tvars, impl, file, c, mu, upd, rd, w, now, mtime, ctl>>

\* case event, ok := <-watcher.Events; for a Write or Create event,
\* currentTime := time.Now()
GoSelectEvent(g) ==
    /\ go[g].pc = "select"
    /\ go[g].events # <<>>
    /\ go' = [go EXCEPT ![g] =
                IF Head(go[g].events) = "write"
                THEN [go[g] EXCEPT !.pc = "check", !.events = Tail(@),
                                   !.currentTime = now]
                ELSE [AtSelect(g) EXCEPT !.events = Tail(@)]]
    /\ UNCHANGED <<tvars, impl, file, c, mu, upd, rd, w, now, mtime, ctl>>

\* case <-c.watcherDone: return
GoSelectDone(g) ==
    /\ go[g].pc = "select"
    /\ go[g].done \in w.closed
    /\ go' = [go EXCEPT ![g] = Exited]
    /\ UNCHANGED <<tvars, impl, file, c, mu, upd, rd, w, now, mtime, ctl>>

\* c.watcherMu.Lock()
GoCheckLock(g) ==
    /\ go[g].pc = "check"
    /\ w.mu = None
    /\ w' = [w EXCEPT !.mu = g]
    /\ go' = [go EXCEPT ![g].pc = "locked"]
    /\ UNCHANGED <<tvars, impl, file, c, mu, upd, rd, now, mtime, ctl>>

ShouldReload(currentTime, lastModified) == currentTime - lastModified > MinInterval

\* The event handler that stamps c.lastModified for every event it looks at,
\* dropped ones included.
GoCheckStampsAlways(g) ==
    /\ go[g].pc = "locked"
    /\ IF ShouldReload(go[g].currentTime, w.lastModified)
       THEN /\ w' = [w EXCEPT !.mu = None, !.lastModified = go[g].currentTime,
                              !.lastReload = go[g].currentTime]
            /\ go' = [go EXCEPT ![g].pc = "reload", ![g].currentTime = 0]
       ELSE /\ w' = [w EXCEPT !.mu = None, !.lastModified = go[g].currentTime]
            /\ go' = [go EXCEPT ![g] = [AtSelect(g) EXCEPT !.outcome = "dropped"]]
    /\ UNCHANGED <<tvars, impl, file, c, mu, upd, rd, now, mtime, ctl>>

\* The event handler that keeps watcherMu while it reloads.
GoCheckKeepsLock(g) ==
    /\ go[g].pc = "locked"
    /\ IF ShouldReload(go[g].currentTime, w.lastModified)
       THEN /\ w' = [w EXCEPT !.lastModified = go[g].currentTime,
                              !.lastReload = go[g].currentTime]
            /\ go' = [go EXCEPT ![g].pc = "reload", ![g].currentTime = 0]
       ELSE /\ w' = [w EXCEPT !.mu = None]
            /\ go' = [go EXCEPT ![g] = [AtSelect(g) EXCEPT !.outcome = "dropped"]]
    /\ UNCHANGED <<tvars, impl, file, c, mu, upd, rd, now, mtime, ctl>>

\* shouldReload := ...; if shouldReload { c.lastModified = currentTime };
\* c.watcherMu.Unlock()
GoCheck(g) ==
    /\ go[g].pc = "locked"
    /\ IF ShouldReload(go[g].currentTime, w.lastModified)
       THEN /\ w' = [w EXCEPT !.mu = None, !.lastModified = go[g].currentTime,
                              !.lastReload = go[g].currentTime]
            /\ go' = [go EXCEPT ![g].pc = "reload", ![g].currentTime = 0]
       ELSE /\ w' = [w EXCEPT !.mu = None]
            /\ go' = [go EXCEPT ![g] = [AtSelect(g) EXCEPT !.outcome = "dropped"]]
    /\ UNCHANGED <<tvars, impl, file, c, mu, upd, rd, now, mtime, ctl>>

\* The event loop that returns when Update() fails.
GoLoopStopsOnError(g) ==
    /\ go[g].pc = "reload"
    /\ upd[g].pc = "idle"
    /\ upd[g].res # "-"
    /\ upd' = [upd EXCEPT ![g] = Idle]
    /\ go' = [go EXCEPT ![g] =
                IF upd[g].res = "ok"
                THEN [AtSelect(g) EXCEPT !.outcome = "ok"]
                ELSE Exited]
    /\ UNCHANGED <<tvars, impl, file, c, mu, rd, w, now, mtime, ctl>>

\* Update() returned (an error is logged); back to the select.
GoLoop(g) ==
    /\ go[g].pc = "reload"
    /\ upd[g].pc = "idle"
    /\ upd[g].res # "-"
    /\ upd' = [upd EXCEPT ![g] = Idle]
    /\ go' = [go EXCEPT ![g] =
                [AtSelect(g) EXCEPT !.outcome =
                    IF upd[g].res = "ok" THEN "ok" ELSE "failed"]]
    /\ UNCHANGED <<tvars, impl, file, c, mu, rd, w, now, mtime, ctl>>

----------------------------------------------------------------------------
(* The environment: the file is rewritten, removed or corrupted; time passes *)

\* An event reaches every watcher that has the path added.
Delivered(g, content) ==
    IF Added(g)
    THEN [go[g] EXCEPT !.events =
             Append(@, IF content.kind = Missing THEN "remove" ELSE "write")]
    ELSE go[g]

WriteFile(content) ==
    /\ content # file
    /\ \A g \in Goroutines : Added(g) => Len(go[g].events) < MaxEvents
    /\ file' = content
    /\ mtime' = IF content.kind = Missing THEN mtime ELSE now
    /\ go' = [g \in Goroutines |-> Delivered(g, content)]
    /\ UNCHANGED <<tvars, impl, c, mu, upd, rd, w, now, ctl>>

Tick(max) ==
    /\ now < max
    /\ now' = now + 1
    /\ UNCHANGED <<tvars, impl, file, c, mu, upd, rd, w, go, mtime, ctl>>

----------------------------------------------------------------------------
(* The task protocol engine (gateway/clients/a2aClient) and the backend it  *)
(* talks to, for one task id.  The client's source is not part of the       *)
(* sources at hand, only its test is: this part follows the specification   *)
(* (sections 3, 4.2, 5 and 7) and tests/a2a_client_test.go.                 *)

MaxArtifacts == 2       \* artifacts the backend produces for the task

Clients == {"a1", "a2"}     \* threads calling SendTask, GetTask, CancelTask
Others == {"a1"}            \* the thread calling beside a subscription

Terminal == {"completed", "failed", "canceled"}
NonTerminal == {"submitted", "working", "input-required"}

NotCancelableError == "NotCancelableError"
DeadlineExceeded == "DeadlineExceeded"
NotFound == "NotFound"

\* The backend's task: first is the first terminal state it reached (history).
NoTask ==
    [state |-> "absent", artifacts |-> 0, cancel |-> FALSE, first |-> "-"]

\* A client's call: at is the task's state when the call was made (history).
NoRequest == [op |-> "-", pc |-> "idle", at |-> "-", reply |-> "-", result |-> "-"]

\* StreamEvent: StatusUpdate{state, final}, ArtifactUpdate{index}, or the
\* error value a transport failure is surfaced as.
StatusUpdate(st, final) == [type |-> "status", state |-> st, final |-> final, index |-> 0]
ArtifactUpdate(i) == [type |-> "artifact", state |-> "-", final |-> FALSE, index |-> i]
TransportError == [type |-> "error", state |-> "-", final |-> FALSE, index |-> 0]

\* The subscription: emitted is what the backend put on the connection,
\* delivered what the engine put on the channel; closes counts close(channel)
\* and cause records why the sequence ended (history).
NoStream ==
    [pc |-> "none", conn |-> "none", ctx |-> "live", emitted |-> <<>>,
     delivered |-> <<>>, closes |-> 0, cause |-> "-"]

\* The backend puts an event on the subscription's connection, if it is up.
Emits(ev) ==
    IF stream.conn = "open" THEN [stream EXCEPT !.emitted = Append(@, ev)] ELSE stream

\* The task moves to state st.
Becomes(st) ==
    [task EXCEPT !.state = st,
                 !.first = IF st \in Terminal /\ @ = "-" THEN st ELSE @]

\* Lifecycle: Submitted -> Working when the backend begins processing.
BackendWorks ==
    /\ task.state = "submitted"
    /\ task' = Becomes("working")
    /\ stream' = Emits(StatusUpdate("working", FALSE))
    /\ UNCHANGED <<cvars, rpc>>

\* artifacts: append-only during execution
BackendArtifact ==
    /\ task.state = "working"
    /\ task.artifacts < MaxArtifacts
    /\ task' = [task EXCEPT !.artifacts = @ + 1]
    /\ stream' = Emits(ArtifactUpdate(task.artifacts))
    /\ UNCHANGED <<cvars, rpc>>

\* The task ends by itself: Completed or Failed, with the final StatusUpdate.
BackendFinishes(st) ==
    /\ task.state = "working"
    /\ task' = Becomes(st)
    /\ stream' = Emits(StatusUpdate(st, TRUE))
    /\ UNCHANGED <<cvars, rpc>>

\* Variant: an accepted cancellation takes effect only on a task the backend
\* has not begun to process.
BackendCancelsOnlyQueued ==
    /\ task.cancel
    /\ task.state = "submitted"
    /\ task' = Becomes("canceled")
    /\ stream' = Emits(StatusUpdate("canceled", TRUE))
    /\ UNCHANGED <<cvars, rpc>>

\* Variant: an accepted cancellation takes effect whatever state the task
\* is in.
BackendCancelsAnyState ==
    /\ task.cancel
    /\ task.state # "absent"
    /\ task' = Becomes("canceled")
    /\ stream' = Emits(StatusUpdate("canceled", TRUE))
    /\ UNCHANGED <<cvars, rpc>>

\* A cancellation the backend accepted takes effect.
BackendCancels ==
    /\ task.cancel
    /\ task.state \in NonTerminal
    /\ task' = Becomes("canceled")
    /\ stream' = Emits(StatusUpdate("canceled", TRUE))
    /\ UNCHANGED <<cvars, rpc>>

\* What a submission does to the task: it creates it in Submitted; a task
\* that exists is left as it is.
Submitted(t) ==
    IF t.state = "absent" THEN [t EXCEPT !.state = "submitted"] ELSE t

----------------------------------------------------------------------------
(* SendTask, GetTask, CancelTask: client thread a *)

Requests(a, op) ==
    /\ rpc[a].pc = "idle"
    /\ rpc' = [rpc EXCEPT ![a] = [NoRequest EXCEPT !.op = op, !.pc = "wait",
                                                   !.at = task.first]]

\* SendTask: the submission reaches the backend; the caller blocks.
SendTask(a) ==
    /\ Requests(a, "send")
    /\ task' = Submitted(task)
    /\ UNCHANGED <<cvars, stream>>

\* Variant: SendTask returns the Task of the backend's first answer.
SendTaskReturnsAtOnce(a) ==
    /\ rpc[a].op = "send" /\ rpc[a].pc = "wait"
    /\ rpc' = [rpc EXCEPT ![a].pc = "idle", ![a].result = task.state]
    /\ UNCHANGED <<cvars, task, stream>>

\* ... until the backend reaches a terminal state: returns the final Task
SendTaskReturns(a) ==
    /\ rpc[a].op = "send" /\ rpc[a].pc = "wait"
    /\ task.state \in Terminal
    /\ rpc' = [rpc EXCEPT ![a].pc = "idle", ![a].result = task.state]
    /\ UNCHANGED <<cvars, task, stream>>

\* ... or the caller's deadline expires: a client-side give-up
SendTaskTimesOut(a) ==
    /\ rpc[a].op = "send" /\ rpc[a].pc = "wait"
    /\ rpc' = [rpc EXCEPT ![a].pc = "idle", ![a].result = DeadlineExceeded]
    /\ UNCHANGED <<cvars, task, stream>>

\* GetTask: point-in-time snapshot of the remote task state
GetTask(a) ==
    /\ Requests(a, "get")
    /\ UNCHANGED <<cvars, task, stream>>

GetTaskReturns(a) ==
    /\ rpc[a].op = "get" /\ rpc[a].pc = "wait"
    /\ rpc' = [rpc EXCEPT ![a].pc = "idle",
                          ![a].result = IF task.state = "absent" THEN NotFound
                                        ELSE task.state]
    /\ UNCHANGED <<cvars, task, stream>>

\* CancelTask: requests cancellation
CancelTask(a) ==
    /\ Requests(a, "cancel")
    /\ UNCHANGED <<cvars, task, stream>>

\* Variant: the backend accepts a cancellation of any task it knows.
BackendCancelRequestLenient(a) ==
    /\ rpc[a].op = "cancel" /\ rpc[a].pc = "wait" /\ rpc[a].reply = "-"
    /\ \/ /\ task.state = "absent"
          /\ rpc' = [rpc EXCEPT ![a].reply = NotFound]
          /\ task' = task
       \/ /\ task.state # "absent"
          /\ rpc' = [rpc EXCEPT ![a].reply = "accepted"]
          /\ task' = [task EXCEPT !.cancel = TRUE]
    /\ UNCHANGED <<cvars, stream>>

\* The backend's answer: NotCancelableError if the task already reached a
\* terminal state or the backend does not support cancellation; otherwise
\* the request is accepted (advisory: the task is not stopped by this step).
BackendCancelRequest(a) ==
    /\ rpc[a].op = "cancel" /\ rpc[a].pc = "wait" /\ rpc[a].reply = "-"
    /\ \/ /\ task.state \in Terminal
          /\ rpc' = [rpc EXCEPT ![a].reply = NotCancelableError]
          /\ task' = task
       \/ /\ task.state = "absent"
          /\ rpc' = [rpc EXCEPT ![a].reply = NotFound]
          /\ task' = task
       \/ /\ task.state \in NonTerminal
          /\ rpc' = [rpc EXCEPT ![a].reply = NotCancelableError]
          /\ task' = task
       \/ /\ task.state \in NonTerminal
          /\ rpc' = [rpc EXCEPT ![a].reply = "accepted"]
          /\ task' = [task EXCEPT !.cancel = TRUE]
    /\ UNCHANGED <<cvars, stream>>

\* CancelTask returns the error, or the Task as the backend has it by then.
CancelTaskReturns(a) ==
    /\ rpc[a].op = "cancel" /\ rpc[a].pc = "wait" /\ rpc[a].reply # "-"
    /\ rpc' = [rpc EXCEPT ![a].pc = "idle",
                          ![a].result = IF rpc[a].reply = "accepted" THEN task.state
                                        ELSE rpc[a].reply]
    /\ UNCHANGED <<cvars, task, stream>>

----------------------------------------------------------------------------
(* SendTaskSubscribe: the consumer, the engine's streaming goroutine and the *)
(* transport                                                                *)

\* Submits the task and returns the channel; a task that already ended
\* yields its final StatusUpdate at once.
SendTaskSubscribe ==
    /\ stream.pc = "none"
    /\ task' = Submitted(task)
    /\ LET opened == [NoStream EXCEPT !.pc = "open", !.conn = "open"] IN
       stream' = CASE task.state \in Terminal ->
                        [opened EXCEPT !.emitted = <<StatusUpdate(task.state, TRUE)>>]
                   [] OTHER -> opened
    /\ UNCHANGED <<cvars, rpc>>

\* Variant: the goroutine relays the newest event the backend produced.
StreamDeliverNewest ==
    /\ stream.pc = "open"
    /\ Len(stream.delivered) < Len(stream.emitted)
    /\ LET ev == stream.emitted[Len(stream.emitted)] IN
       stream' = [stream EXCEPT !.delivered = Append(@, ev),
                                !.pc = IF ev.final THEN "final" ELSE "open"]
    /\ UNCHANGED <<cvars, task, rpc>>

\* Variant: the goroutine relays the final StatusUpdate as soon as the backend
\* has produced it, ahead of the events still unread.
StreamDeliverFinalFirst ==
    /\ stream.pc = "open"
    /\ Len(stream.delivered) < Len(stream.emitted)
    /\ LET unread == (Len(stream.delivered) + 1)..Len(stream.emitted)
           finals == {i \in unread : stream.emitted[i].final}
           ev == stream.emitted[IF finals # {} THEN CHOOSE i \in finals : TRUE
                                ELSE Len(stream.delivered) + 1]
       IN stream' = [stream EXCEPT !.delivered = Append(@, ev),
                                   !.pc = IF ev.final THEN "final" ELSE "open"]
    /\ UNCHANGED <<cvars, task, rpc>>

\* Variant: the goroutine keeps reading after the final StatusUpdate.
StreamDeliverKeepsReading ==
    /\ stream.pc = "open"
    /\ Len(stream.delivered) < Len(stream.emitted)
    /\ stream' = [stream EXCEPT
                     !.delivered = Append(@, stream.emitted[Len(stream.delivered) + 1])]
    /\ UNCHANGED <<cvars, task, rpc>>

\* The goroutine reads the next event off the connection and puts it on the
\* channel; the final StatusUpdate is the last one it reads.
StreamDeliver ==
    /\ stream.pc = "open"
    /\ Len(stream.delivered) < Len(stream.emitted)
    /\ LET ev == stream.emitted[Len(stream.delivered) + 1] IN
       stream' = [stream EXCEPT !.delivered = Append(@, ev),
                                !.pc = IF ev.final THEN "final" ELSE "open"]
    /\ UNCHANGED <<cvars, task, rpc>>

\* After the final event: close the channel, release the connection, return.
StreamFinish ==
    /\ stream.pc = "final"
    /\ stream' = [stream EXCEPT !.pc = "closed", !.conn = "released",
                                !.closes = @ + 1, !.cause = "final"]
    /\ UNCHANGED <<cvars, task, rpc>>

\* The transport fails mid-subscription.
TransportFails ==
    /\ stream.pc = "open"
    /\ stream.conn = "open"
    /\ stream' = [stream EXCEPT !.conn = "broken"]
    /\ UNCHANGED <<cvars, task, rpc>>

\* The goroutine finds the connection broken: the error value goes on the
\* channel, the channel is closed, the connection released.
StreamTransportError ==
    /\ stream.pc = "open"
    /\ stream.conn = "broken"
    /\ stream' = [stream EXCEPT !.pc = "closed", !.conn = "released",
                                !.delivered = Append(@, TransportError),
                                !.closes = @ + 1, !.cause = "transport"]
    /\ UNCHANGED <<cvars, task, rpc>>

\* The consumer cancels its context.
CancelContext ==
    /\ stream.pc \in {"open", "final"}
    /\ stream.ctx = "live"
    /\ stream' = [stream EXCEPT !.ctx = "canceled"]
    /\ UNCHANGED <<cvars, task, rpc>>

\* Variant: on ctx.Done() the goroutine closes the channel and returns with
\* the connection still open.
StreamContextDoneLeaks ==
    /\ stream.pc = "open"
    /\ stream.ctx = "canceled"
    /\ stream' = [stream EXCEPT !.pc = "closed", !.closes = @ + 1,
                                !.cause = "context"]
    /\ UNCHANGED <<cvars, task, rpc>>

\* The goroutine sees ctx.Done(): close the channel, release the connection.
StreamContextDone ==
    /\ stream.pc = "open"
    /\ stream.ctx = "canceled"
    /\ stream' = [stream EXCEPT !.pc = "closed", !.conn = "released",
                                !.closes = @ + 1, !.cause = "context"]
    /\ UNCHANGED <<cvars, task, rpc>>

----------------------------------------------------------------------------
(* Specifications *)

\* The state NewYamlConfig returns: the first Update() succeeded on document d.
Constructed(impls, docs) ==
    /\ impl \in impls
    /\ \E d \in docs :
         /\ file = FileOf(d)
         /\ \E order \in Perms(DOMAIN d.users) :
                c = Installed(impl, NewYamlConfig(impl), d, order)
    /\ mu = Unlocked
    /\ upd = [t \in Updaters |-> Idle]
    /\ rd = [r \in Readers |-> NoCall]
    /\ w = NotWatching
    /\ go = [g \in Goroutines |-> Unborn]
    /\ now = 0
    /\ mtime = 0
    /\ ctl = [p \in Controllers |-> NoControl]
    /\ task = NoTask
    /\ rpc = [a \in Clients |-> NoRequest]
    /\ stream = NoStream

\* Reloads, readers and the file; both implementations; no watcher.
Init == Constructed({"acme", "watcher"}, Docs)

Next ==
    \/ \E t \in Callers : UpdateLock(t)
    \/ \E t \in Callers : UpdateRead(t)
    \/ \E t \in Callers : UpdateParse(t)
    \/ \E t \in Callers : UpdateServer(t)
    \/ \E t \in Callers : UpdateSSL(t)
    \/ \E t \in Callers : UpdateA2A(t)
    \/ \E t \in Callers : UpdateUsers(t)
    \/ \E t \in Callers : UpdateBackends(t)
    \/ \E t \in Callers : UpdateReturn(t)
    \/ \E r \in Readers : \E call \in Calls : ReaderCall(r, call[1], call[2])
    \/ \E r \in Readers : ReaderReturn(r)
    \/ \E r \in Readers : MutateReturned(r)
    \/ \E content \in Contents : WriteFile(content)

Spec == Init /\ [][Next]_vars

\* The A2A fields of yaml.go: Update and GetA2ACardBaseInfo.
InitA2A == Constructed({"acme"}, Docs)

NextA2A ==
    \/ \E t \in Callers : UpdateLock(t)
    \/ \E t \in Callers : UpdateRead(t)
    \/ \E t \in Callers : UpdateParse(t)
    \/ \E t \in Callers : UpdateServer(t)
    \/ \E t \in Callers : UpdateSSL(t)
    \/ \E t \in Callers : UpdateA2A(t)
    \/ \E t \in Callers : UpdateUsers(t)
    \/ \E t \in Callers : UpdateBackends(t)
    \/ \E t \in Callers : UpdateReturn(t)
    \/ \E r \in Readers : ReaderCall(r, "GetA2ACardBaseInfo", "")
    \/ \E r \in Readers : ReaderReturn(r)
    \/ \E content \in Contents : WriteFile(content)

SpecA2A == InitA2A /\ [][NextA2A]_vars

\* All public methods of part_000's store that touch the snapshot: Update,
\* the read accessors, SetListenAddr and InfoHandler.
Addresses == {"addr9"}

InitAccess == Constructed({"watcher"}, Docs)

NextAccess ==
    \/ \E t \in Callers : UpdateLock(t)
    \/ \E t \in Callers : UpdateRead(t)
    \/ \E t \in Callers : UpdateParse(t)
    \/ \E t \in Callers : UpdateServer(t)
    \/ \E t \in Callers : UpdateUsers(t)
    \/ \E t \in Callers : UpdateBackends(t)
    \/ \E t \in Callers : UpdateReturn(t)
    \/ \E r \in Readers : \E call \in Calls : ReaderCall(r, call[1], call[2])
    \/ \E r \in Readers : ReaderReturn(r)
    \/ \E content \in Contents : WriteFile(content)
    \/ \E r \in Readers : \E add \in Addresses : SetListenAddrRLock(r, add)
    \/ \E r \in Readers : SetListenAddr(r)
    \/ \E r \in Readers : InfoHandler(r)

SpecAccess == InitAccess /\ [][NextAccess]_vars

\* The watcher of part_000: StartWatcher, StopWatcher, the goroutines and
\* their reloads, the file and the clock.
WatchDocs == {DocOne, DocThree}
WatchContents == {FileOf(d) : d \in WatchDocs} \cup {MissingFile, MalformedFile}

InitWatcher == Constructed({"watcher"}, WatchDocs)

NextWatcher ==
    \/ \E p \in Operators : StartLock(p)
    \/ \E p \in Operators : StartWatcher(p)
    \/ \E p \in Operators : StopLock(p)
    \/ \E p \in Operators : StopWatcher(p)
    \/ \E g \in Goroutines : GoAdd(g)
    \/ \E g \in Goroutines : GoSelectEvent(g)
    \/ \E g \in Goroutines : GoSelectDone(g)
    \/ \E g \in Goroutines : GoCheckLock(g)
    \/ \E g \in Goroutines : GoCheck(g)
    \/ \E g \in Goroutines : UpdateLock(g)
    \/ \E g \in Goroutines : UpdateRead(g)
    \/ \E g \in Goroutines : UpdateParse(g)
    \/ \E g \in Goroutines : UpdateServer(g)
    \/ \E g \in Goroutines : UpdateUsers(g)
    \/ \E g \in Goroutines : UpdateBackends(g)
    \/ \E g \in Goroutines : UpdateReturn(g)
    \/ \E g \in Goroutines : GoLoop(g)
    \/ \E content \in WatchContents : WriteFile(content)
    \/ Tick(WatchMaxTime)

SpecWatcher == InitWatcher /\ [][NextWatcher]_vars

\* Two threads calling StartWatcher and StopWatcher (Close) at will, with the
\* goroutines they start and the file. The clock stands still: every event
\* falls inside the debounce window and is dropped, so no reload runs.
ControlContents == {FileOf(DocOne), MissingFile}

InitControl == Constructed({"watcher"}, {DocOne})

NextControl ==
    \/ \E p \in Controllers : StartLock(p)
    \/ \E p \in Controllers : StartWatcher(p)
    \/ \E p \in Controllers : StopLock(p)
    \/ \E p \in Controllers : StopWatcher(p)
    \/ \E g \in Goroutines : GoAdd(g)
    \/ \E g \in Goroutines : GoSelectEvent(g)
    \/ \E g \in Goroutines : GoSelectDone(g)
    \/ \E g \in Goroutines : GoCheckLock(g)
    \/ \E g \in Goroutines : GoCheck(g)
    \/ \E content \in ControlContents : WriteFile(content)

SpecControl == InitControl /\ [][NextControl]_vars

\* One watcher, started and left running, over a clock long enough for two
\* reloads outside each other's debounce window; the file is saved whole,
\* saved in two steps (truncated, then written), corrupted or removed.
DebounceContents ==
    {FileOf(d) : d \in WatchDocs} \cup {MissingFile, MalformedFile, TruncatedFile}

NextDebounce ==
    \/ \E p \in Operators : StartLock(p)
    \/ \E p \in Operators : StartWatcher(p)
    \/ \E g \in Goroutines : GoAdd(g)
    \/ \E g \in Goroutines : GoSelectEvent(g)
    \/ \E g \in Goroutines : GoCheckLock(g)
    \/ \E g \in Goroutines : GoCheck(g)
    \/ \E g \in Goroutines : UpdateLock(g)
    \/ \E g \in Goroutines : UpdateRead(g)
    \/ \E g \in Goroutines : UpdateParse(g)
    \/ \E g \in Goroutines : UpdateServer(g)
    \/ \E g \in Goroutines : UpdateUsers(g)
    \/ \E g \in Goroutines : UpdateBackends(g)
    \/ \E g \in Goroutines : UpdateReturn(g)
    \/ \E g \in Goroutines : GoLoop(g)
    \/ \E content \in DebounceContents : WriteFile(content)
    \/ Tick(DebounceMaxTime)

SpecDebounce == InitWatcher /\ [][NextDebounce]_vars

\* The two locks of part_000: one thread starting and stopping the watcher,
\* the goroutines and their reloads, one thread calling Update(), one reader,
\* and the file. The clock stands still.
Reloaders == {"m1"}

LockMaxTime == 2         \* where the clock stops under SpecLocks

\* Time passes before the watcher is started, and the file is written once
\* while it runs, so that the write's event is one the goroutine reloads for.
\* The watcher is started once: a later StartWatcher finds it running, and
\* there is none after StopWatcher.
NextLocks ==
    \/ \E p \in Operators : (w.started = 0 \/ w.isWatching) /\ StartLock(p)
    \/ \E p \in Operators : StartWatcher(p)
    \/ \E p \in Operators : StopLock(p)
    \/ \E p \in Operators : StopWatcher(p)
    \/ \E g \in Goroutines : GoAdd(g)
    \/ \E g \in Goroutines : GoSelectEvent(g)
    \/ \E g \in Goroutines : GoSelectDone(g)
    \/ \E g \in Goroutines : GoCheckLock(g)
    \/ \E g \in Goroutines : GoCheck(g)
    \/ \E g \in Goroutines : GoLoop(g)
    \/ \E t \in Goroutines \cup Reloaders : UpdateLock(t)
    \/ \E t \in Goroutines \cup Reloaders : UpdateRead(t)
    \/ \E t \in Goroutines \cup Reloaders : UpdateParse(t)
    \/ \E t \in Goroutines \cup Reloaders : UpdateServer(t)
    \/ \E t \in Goroutines \cup Reloaders : UpdateUsers(t)
    \/ \E t \in Goroutines \cup Reloaders : UpdateBackends(t)
    \/ \E t \in Goroutines \cup Reloaders : UpdateReturn(t)
    \/ \E r \in Readers : ReaderCall(r, "GetUserIDByKeyHash", "k1")
    \/ \E r \in Readers : ReaderReturn(r)
    \/ w.started = 0 /\ Tick(LockMaxTime)
    \/ w.started > 0 /\ WriteFile(FileOf(DocTwo))

\* Every thread that is inside a call and not waiting for a lock takes its
\* next step (file I/O returns), and a goroutine waiting for watcherMu or for
\* the snapshot lock gets it if it is free again and again.
SpecLocks ==
    /\ InitControl /\ [][NextLocks]_vars
    /\ \A p \in Operators : WF_vars(StartWatcher(p)) /\ WF_vars(StopWatcher(p))
    /\ \A g \in Goroutines :
          /\ WF_vars(GoCheck(g)) /\ WF_vars(GoLoop(g))
          /\ SF_vars(GoCheckLock(g)) /\ SF_vars(UpdateLock(g))
    /\ \A t \in Goroutines \cup Reloaders :
          /\ WF_vars(UpdateRead(t)) /\ WF_vars(UpdateParse(t))
          /\ WF_vars(UpdateServer(t)) /\ WF_vars(UpdateUsers(t))
          /\ WF_vars(UpdateBackends(t)) /\ WF_vars(UpdateReturn(t))
    /\ \A r \in Readers : WF_vars(ReaderReturn(r))

\* The task protocol: the backend, two client threads calling SendTask,
\* GetTask and CancelTask on one task id, and a subscription on it that runs
\* to its final event.
InitTask == Constructed({"acme"}, {DocEmpty})

Backend ==
    \/ BackendWorks
    \/ BackendArtifact
    \/ \E st \in {"completed", "failed"} : BackendFinishes(st)
    \/ BackendCancels

ClientCalls(a) ==
    \/ SendTask(a)
    \/ SendTaskReturns(a)
    \/ SendTaskTimesOut(a)
    \/ GetTask(a)
    \/ GetTaskReturns(a)
    \/ CancelTask(a)
    \/ BackendCancelRequest(a)
    \/ CancelTaskReturns(a)

NextTask ==
    \/ Backend
    \/ \E a \in Clients : ClientCalls(a)
    \/ SendTaskSubscribe
    \/ StreamDeliver
    \/ StreamFinish

SpecTask == InitTask /\ [][NextTask]_vars

\* The backend acts on a cancellation it accepted.
SpecTaskFair == SpecTask /\ WF_vars(BackendCancels)

\* The end-to-end scenario: a subscription for a multi-artifact task on a
\* well-behaved backend, which works through the task, produces all its
\* artifacts and completes it; the transport holds, the consumer reads to the
\* end, and other threads poll the task with GetTask meanwhile.
BackendCompletes ==
    /\ task.artifacts = MaxArtifacts
    /\ BackendFinishes("completed")

NextEndToEnd ==
    \/ SendTaskSubscribe
    \/ BackendWorks
    \/ BackendArtifact
    \/ BackendCompletes
    \/ StreamDeliver
    \/ StreamFinish
    \/ \E a \in Clients : GetTask(a)
    \/ \E a \in Clients : GetTaskReturns(a)

SpecEndToEnd ==
    /\ InitTask /\ [][NextEndToEnd]_vars
    /\ WF_vars(BackendWorks)
    /\ WF_vars(BackendArtifact)
    /\ WF_vars(BackendCompletes)
    /\ WF_vars(StreamDeliver)
    /\ WF_vars(StreamFinish)

\* The subscription: the backend, the consumer and the transport, with one
\* client thread calling beside it.
NextSubscribe ==
    \/ Backend
    \/ \E a \in Others : ClientCalls(a)
    \/ SendTaskSubscribe
    \/ StreamDeliver
    \/ StreamFinish
    \/ TransportFails
    \/ StreamTransportError
    \/ CancelContext
    \/ StreamContextDone

SpecSubscribe == InitTask /\ [][NextSubscribe]_vars

\* The streaming goroutine is a goroutine of its own: it is scheduled as long
\* as it has a step to take.
SpecSubscribeFair ==
    /\ SpecSubscribe
    /\ WF_vars(StreamDeliver)
    /\ WF_vars(StreamFinish)
    /\ WF_vars(StreamTransportError)
    /\ WF_vars(StreamContextDone)

----------------------------------------------------------------------------
(* Properties *)

\* The snapshot is document d installed whole; a Backend may since have been
\* overwritten through a pointer the store handed out, and serverAddress is
\* left out (part_000's SetListenAddr overwrites it by design).
SnapshotOf(d, order) ==
    LET s == Installed(impl, NewYamlConfig(impl), d, order) IN
    /\ [c EXCEPT !.backends = s.backends, !.serverAddress = s.serverAddress] = s
    /\ DOMAIN c.backends = DOMAIN s.backends
    /\ \A b \in DOMAIN c.backends : c.backends[b] \in {s.backends[b], Scribbled}

Consistent == \E d \in Docs : \E order \in Perms(DOMAIN d.users) : SnapshotOf(d, order)

C2_FailedReloadChangesNothing ==
    [][\A t \in Updaters :
         (upd'[t] # upd[t]) =>
            /\ upd'[t].pc \in {"read", "parse"} => c' = c
            /\ upd'[t].res \in {ErrRead, ErrParse} /\ upd[t].pc # "idle" =>
                  /\ c' = c
                  /\ upd[t].pc \in {"read", "parse"}
                  /\ mu'.writer = None
            /\ upd[t].pc = "read" /\ file.kind = Missing => upd'[t].res = ErrRead
            /\ upd[t].pc = "parse" /\ upd[t].data.kind = Malformed =>
                  upd'[t].res = ErrParse /\ upd'[t].pc = "idle"]_vars

\* A reload has just failed on a malformed file while the store holds a
\* credential index, and another reload failed on a missing file.
C2_Witness ==
    /\ upd["m1"].res = ErrParse
    /\ upd["m2"].res = ErrRead
    /\ DOMAIN c.userKeyHashes # {}

\* C3: when a reload fails on a malformed source, ResolveUser and
\* ResolveBackend return afterwards, for every argument, what they returned
\* when the reload was called.
C3_SameResultsAfterFailedReload ==
    [][\A t \in Updaters :
         upd[t].pc = "parse" /\ upd'[t].res = ErrParse =>
            /\ \A k \in KeyHashes : GetUserIDByKeyHash(k)' = upd[t].before.user[k]
            /\ \A s \in Slugs : ResolveBackend(s)' = upd[t].before.backend[s]]_vars

\* C4: no thread reads or parses the source while it holds the exclusive lock.
C4_NoIOUnderExclusiveLock ==
    \A t \in Updaters : upd[t].pc \in {"read", "parse"} => mu.writer # t

\* What a caller sees through a result: the value, or the object pointed to.
Seen(op, arg) ==
    {[val |-> IF res.val.kind = "ptr" THEN c.backends[res.val.slug] ELSE res.val,
      err |-> res.err] : res \in Results(op, arg)}

\* C5: a caller's write to a value an accessor returned changes nothing any
\* accessor returns afterwards.
C5_ReturnedValuesAreNotLive ==
    [][\A r \in Readers :
         rd[r].pc = "idle" /\ rd[r].val.kind \in {"copy", "ptr"} /\ rd'[r] = NoCall =>
            \A call \in Calls : Seen(call[1], call[2])' = Seen(call[1], call[2])]_vars

\* The mapping of authorization strings the claim states: exact spellings only.
ClaimedPolicy(s) ==
    CASE s = StrUsersOnly -> AuthorizedUsersOnly
      [] s = StrMarkedMethods -> NotAuthorizedToMarkedMethods
      [] s = StrNone -> NotAuthorizedEverywhere
      [] OTHER -> AuthorizedUsersOnly

\* C6: the policy a reload installs is the one the exact spelling of the
\* source's authorization string names, and AuthorizedUsersOnly for any
\* other string, a differently-cased spelling included.
C6_ExactAuthorizationStrings ==
    [][\A t \in Updaters :
         upd[t].pc = "server" /\ upd'[t].pc # "server" =>
            c'.authorizationType = ClaimedPolicy(upd[t].data.doc.authorization)]_vars

Returns(r, op) == rd[r].pc = "in" /\ rd'[r].pc = "idle" /\ rd[r].op = op

\* C7: ResolveUser of a non-empty key hash returns the user the snapshot's
\* credential index maps it to, and no user when the index does not hold it.
C7_ResolveUserReadsSnapshot ==
    [][\A r \in Readers :
         Returns(r, "GetUserIDByKeyHash") /\ rd[r].arg # "" =>
            IF rd[r].arg \in DOMAIN c.userKeyHashes
            THEN rd'[r].val = Str(c.userKeyHashes[rd[r].arg]) /\ rd'[r].err = Nil
            ELSE rd'[r].val = Str("")]_vars

\* C8: ResolveUser of a non-empty key hash the credential index does not
\* hold, and ResolveBackend of a slug the registry does not hold, return
\* ErrNotFound and leave the store as it was.
C8_AbsentIsNotFound ==
    [][\A r \in Readers :
         /\ Returns(r, "GetUserIDByKeyHash") /\ rd[r].arg # ""
               /\ rd[r].arg \notin DOMAIN c.userKeyHashes =>
                  rd'[r].err = ErrNotFound /\ c' = c
         /\ Returns(r, "GetBackend") /\ rd[r].arg \notin DOMAIN c.backends =>
                  rd'[r].err = ErrNotFound /\ c' = c]_vars

\* C9: ResolveUser of the empty key hash returns the empty user id and no
\* error.
C9_EmptyKeyIsNoIdentity ==
    [][\A r \in Readers :
         Returns(r, "GetUserIDByKeyHash") /\ rd[r].arg = "" =>
            rd'[r].val = Str("") /\ rd'[r].err = Nil]_vars

\* C10: once StopWatcher has returned (and StartWatcher has not been called
\* again) no watcher goroutine starts an Update() or completes one.
C10_NoReloadAfterStop ==
    [][(\A p \in Operators : ctl[p].pc = "idle" /\ ctl[p].last = "stop") =>
         \A g \in Goroutines :
            /\ ~(upd[g].pc = "idle" /\ upd'[g].pc = "read")
            /\ ~(upd[g].pc # "idle" /\ upd'[g].pc = "idle")]_vars

\* C11: StopWatcher (and Close, which only calls it) is safe under any number
\* of sequential or concurrent calls, also when the watcher was never started:
\* no call closes a nil or an already closed done channel (so none panics),
\* every call that returns leaves the store not watching, and a call that
\* found the store not watching changed nothing.
C11_StopIsIdempotent ==
    /\ [](~w.panicked)
    /\ [][\A p \in Controllers :
             (ctl[p].pc = "stop" /\ ctl'[p].pc = "idle") =>
                 /\ ~w'.isWatching
                 /\ ~w.isWatching => w' = [w EXCEPT !.mu = None]]_vars

\* Both threads have returned from StopWatcher and only one channel was ever
\* made and closed: one of the two calls found the store not watching.
C11_Witness ==
    /\ \A p \in Controllers : ctl[p].pc = "idle" /\ ctl[p].last = "stop"
    /\ w.started = 1
    /\ w.closed = {1}

\* C12: a StartWatcher call made while the store is watching returns nil and
\* changes nothing: no goroutine is started, and the done channel, the
\* last-applied timestamp and the watching flag are what they were.
C12_StartIsIdempotent ==
    [][\A p \in Controllers :
          (ctl[p].pc = "start" /\ w.isWatching /\ ctl'[p].pc = "idle") =>
              /\ ctl'[p].last = "start"
              /\ go' = go
              /\ w'.watcherDone = w.watcherDone
              /\ w'.lastModified = w.lastModified
              /\ w'.isWatching
              /\ w'.started = w.started]_vars

\* Both threads' last StartWatcher returned nil and one goroutine was started:
\* the other call found the store watching.
C12_Witness ==
    /\ \A p \in Controllers : ctl[p].pc = "idle" /\ ctl[p].last = "start"
    /\ w.started = 1
    /\ w.isWatching

\* C13: at most one of the goroutines StartWatcher started is alive.
C13_OneWatcherGoroutine == Cardinality({g \in Goroutines : Alive(g)}) <= 1

\* The goroutine g decides what to do with the event it read: the step that
\* leaves the section under c.watcherMu.
Decides(g) == go[g].pc = "locked" /\ go'[g].pc # "locked"
Reloads(g) == Decides(g) /\ go'[g].pc = "reload"

\* C14: the watcher decides on a reload only when at least MinInterval has
\* passed since the reload it decided on before; events of one window cause
\* at most one reload.
C14_ReloadsAreMinIntervalApart ==
    [][\A g \in Goroutines :
          Reloads(g) => go[g].currentTime - w.lastReload >= MinInterval]_vars

\* C15: a write or create event read when at least MinInterval has passed
\* since the last reload the watcher decided on (exactly MinInterval included;
\* any time when there was no reload yet) makes the watcher reload.
C15_EventOutsideWindowReloads ==
    [][\A g \in Goroutines :
          (Decides(g) /\ go[g].currentTime - w.lastReload >= MinInterval)
              => Reloads(g)]_vars

\* C16: an event read less than MinInterval after the last-applied timestamp
\* is dropped, and a dropped event changes nothing: the timestamp, the
\* snapshot and every reload's state are left as they were, and the goroutine
\* is back at its select with nothing kept of the event (it is not put back
\* in the queue, no reload is pending).
C16_DroppedEventChangesNothing ==
    [][\A g \in Goroutines :
          /\ (Decides(g) /\ go[g].currentTime - w.lastModified < MinInterval)
                => ~Reloads(g)
          /\ (Decides(g) /\ ~Reloads(g)) =>
              /\ w'.lastModified = w.lastModified
              /\ w'.lastReload = w.lastReload
              /\ c' = c
              /\ upd' = upd
              /\ go'[g].pc = "select"
              /\ go'[g].events = go[g].events
              /\ go'[g].currentTime = 0]_vars

\* The goroutine dropped the last event, waits for the next one, and the file
\* holds a document that is not the snapshot being served.
C16_Witness ==
    /\ go["g1"].pc = "select"
    /\ go["g1"].outcome = "dropped"
    /\ go["g1"].events = <<>>
    /\ file.kind = "doc"
    /\ \A order \in Perms(DOMAIN file.doc.users) : ~SnapshotOf(file.doc, order)

\* C17: the step that decides on a reload sets the last-applied timestamp to
\* the event's time while the reload has not begun, and at most one goroutine
\* is between that decision and the end of its reload.
C17_StampedBeforeOneInFlight ==
    /\ [](Cardinality({g \in Goroutines : go[g].pc = "reload"}) <= 1)
    /\ [][\A g \in Goroutines :
             Reloads(g) => /\ w'.lastModified = go[g].currentTime
                           /\ upd'[g].pc = "idle"]_vars

\* The goroutine g's Update() has returned an error.
Failed(g) == go[g].pc = "reload" /\ upd[g].res \in {ErrRead, ErrParse}

\* C18: a reload that fails inside the watcher stops nothing: the failing
\* Update() leaves the snapshot and the watcher fields as they were, the
\* goroutine goes back to its select (a goroutine exits only when watcher.Add
\* fails or its done channel is closed), and the next event it reads outside
\* the debounce window makes it reload again.
C18_WatcherSurvivesReloadError ==
    [][\A g \in Goroutines :
          /\ (~Failed(g) /\ Failed(g)') => (c' = c /\ w' = w /\ go' = go)
          /\ (Failed(g) /\ ~Failed(g)') =>
                (c' = c /\ w' = w /\ go'[g].pc = "select")
          /\ (go[g].pc # "exited" /\ go'[g].pc = "exited") =>
                (go[g].pc = "add" \/ (go[g].pc = "select" /\ go[g].done \in w.closed))
          /\ (Decides(g) /\ go[g].outcome = "failed"
                /\ go[g].currentTime - w.lastModified > MinInterval) => Reloads(g)]_vars

\* The goroutine's last reload failed, and the reload of a later event has
\* just succeeded while the store is still watching.
C18_Witness ==
    /\ go["g1"].pc = "reload"
    /\ go["g1"].outcome = "failed"
    /\ upd["g1"].res = "ok"
    /\ w.isWatching

\* C19: when StartWatcher found no file to stat (the last-applied timestamp
\* is still the zero time) and the store is watching, the goroutine that
\* StartWatcher started is running, ready for the file to be created.
C19_WatchesForMissingFile ==
    (w.isWatching /\ w.lastModified = ZeroTime) =>
        go[GoName[w.watcherDone]].pc \in {"add", "select", "check", "locked", "reload"}

\* C20: a reload the watcher runs never reads the file of a save under way
\* (truncated, content not yet written).
C20_NoReloadOfPartialWrite ==
    \A g \in Goroutines :
        upd[g].pc \notin {"idle", "read"} => upd[g].data.kind # "truncated"

\* C21 (yaml.go): whenever a reader can hold the lock, sslMode is "manual" or
\* "acme" and sslAcmeCacheDir is not empty; and when an Update() returns nil,
\* sslMode is "acme" exactly if the source's mode is "acme" in some casing, and
\* sslAcmeCacheDir is the source's value, or "./.autocert-cache" if the source
\* leaves it unset.
C21_SSLDefaults ==
    /\ []((impl = "acme" /\ (mu.writer = None \/ mu.readers # {})) =>
            /\ c.sslMode \in {StrManual, StrAcme}
            /\ c.sslAcmeCacheDir # "")
    /\ [][\A t \in Callers :
             (impl = "acme" /\ upd[t].pc = "return" /\ upd'[t].res = "ok") =>
                LET y == upd[t].data.doc IN
                /\ c'.sslMode = StrAcme <=> y.sslMode \in {StrAcme, StrAcmeUpper}
                /\ y.sslAcmeCacheDir = "" => c'.sslAcmeCacheDir = "./.autocert-cache"
                /\ y.sslAcmeCacheDir # "" => c'.sslAcmeCacheDir = y.sslAcmeCacheDir]_vars

\* A reload of a source with an unknown ssl mode and no cache dir has just
\* returned, after a reload that had installed "acme" and a cache dir.
C21_Witness ==
    /\ impl = "acme"
    /\ upd["m1"].res = "ok"
    /\ upd["m2"].res = "ok"
    /\ file = FileOf(DocOne)
    /\ c.serverName = "one"
    /\ c.sslMode = StrManual
    /\ mu = Unlocked

\* C22 (task protocol): a task in Completed, Failed or Canceled stays in that
\* state at every step, and a GetTask that was called when the task had
\* reached a terminal state returns that state, whatever SendTask, CancelTask
\* and subscription steps are interleaved.
C22_TerminalIsFinal ==
    /\ [](task.first # "-" => task.state = task.first)
    /\ [][task.state \in Terminal => task'.state = task.state]_vars
    /\ [][\A a \in Clients :
             (rpc[a].op = "get" /\ rpc[a].pc = "wait" /\ rpc'[a].pc = "idle"
              /\ rpc[a].at # "-") => rpc'[a].result = rpc[a].at]_vars

\* A GetTask called after the task completed has returned Completed, while
\* the other thread's CancelTask had been accepted before the completion and
\* a subscription was attached.
C22_Witness ==
    /\ rpc["a1"].op = "get" /\ rpc["a1"].pc = "idle"
    /\ rpc["a1"].at = "completed" /\ rpc["a1"].result = "completed"
    /\ rpc["a2"].op = "cancel" /\ rpc["a2"].reply = "accepted"
    /\ task.cancel
    /\ stream.pc # "none"

\* C23 (task protocol): a CancelTask on a task that is already Completed,
\* Failed or Canceled is answered with NotCancelableError and returns it, never
\* a Task, and the task's state stays what it was.
C23_CancelAfterTerminal ==
    /\ [](\A a \in Clients :
            (rpc[a].op = "cancel" /\ rpc[a].pc = "idle" /\ rpc[a].at # "-") =>
                /\ rpc[a].result = NotCancelableError
                /\ task.state = rpc[a].at)
    /\ [][\A a \in Clients :
             (rpc[a].op = "cancel" /\ rpc[a].reply = "-" /\ rpc'[a].reply # "-"
              /\ task.state \in Terminal) =>
                /\ rpc'[a].reply = NotCancelableError
                /\ task' = task]_vars

\* A CancelTask called on the completed task has returned.
C23_Witness ==
    /\ rpc["a1"].op = "cancel" /\ rpc["a1"].pc = "idle"
    /\ rpc["a1"].at = "completed"
    /\ rpc["a1"].result = NotCancelableError
    /\ task.state = "completed"
    /\ task.artifacts > 0

\* The positions of the final StatusUpdates in a sequence of events.
Finals(events) == {i \in 1..Len(events) : events[i].final}

\* C24 (task protocol): the events delivered on a subscription hold at most
\* one StatusUpdate with final = true, and it is the last event; once it is
\* delivered the goroutine reads no more, and when the sequence has ended
\* normally it holds exactly one, the channel is closed, and nothing is
\* delivered afterwards.
C24_ExactlyOneFinal ==
    /\ [](/\ Finals(stream.delivered) \subseteq {Len(stream.delivered)}
          /\ Finals(stream.delivered) # {} => stream.pc \in {"final", "closed"}
          /\ stream.cause = "final" =>
                /\ Cardinality(Finals(stream.delivered)) = 1
                /\ stream.pc = "closed"
                /\ stream.closes = 1)
    /\ [][stream.pc = "closed" => stream'.delivered = stream.delivered]_vars

\* A subscription has ended normally after a Working status, two artifacts
\* and the final Completed status.
C24_Witness ==
    /\ stream.cause = "final"
    /\ Len(stream.delivered) = 4
    /\ stream.delivered[4] = StatusUpdate("completed", TRUE)
    /\ stream.conn = "released"

\* The backend's events among those delivered: all but the error value the
\* engine itself puts on the channel.
Relayed(events) == SelectSeq(events, LAMBDA ev : ev.type # "error")

IsPrefix(p, q) == Len(p) <= Len(q) /\ SubSeq(q, 1, Len(p)) = p

\* C25 (task protocol): within a subscription the events delivered to the
\* consumer are at every moment a prefix of the events the backend emitted, in
\* the same order, with none duplicated and none left out; each delivery
\* appends one event to what was delivered before.
C25_DeliveredInEmissionOrder ==
    /\ [](IsPrefix(Relayed(stream.delivered), stream.emitted))
    /\ [][stream.pc # "none" =>
             /\ IsPrefix(stream.delivered, stream'.delivered)
             /\ IsPrefix(stream.emitted, stream'.emitted)
             /\ Len(stream'.delivered) <= Len(stream.delivered) + 1]_vars

\* The consumer has received the Working status and the first artifact while
\* the second artifact and the final status are still on the way.
C25_Witness ==
    /\ stream.pc = "open"
    /\ Len(stream.emitted) = 4
    /\ Len(stream.delivered) = 2
    /\ stream.delivered[2] = ArtifactUpdate(0)

\* C26 (task protocol): a subscription ends at most once, and by exactly one
\* of three causes: the final StatusUpdate was delivered, the transport failed
\* (the error value is the last thing on the channel), or the consumer's
\* context was canceled; the channel is closed once and never again, the
\* connection is released when it is closed, nothing changes afterwards, and
\* once one of the three causes has arisen the channel is eventually closed
\* and the connection released.
C26_EndsOnceAndReleases ==
    /\ [](/\ stream.closes <= 1
          /\ stream.pc = "closed" <=> stream.closes = 1
          /\ stream.pc = "closed" =>
                /\ stream.conn = "released"
                /\ stream.cause \in {"final", "transport", "context"}
                /\ stream.cause = "final" <=> Finals(stream.delivered) # {}
                /\ stream.cause = "transport" <=>
                      Relayed(stream.delivered) # stream.delivered
                /\ stream.cause = "context" => stream.ctx = "canceled"
          /\ stream.pc \in {"open", "final"} =>
                stream.conn # "released" /\ stream.cause = "-")
    /\ [][stream.pc = "closed" => stream' = stream]_vars
    /\ (\/ Finals(stream.delivered) # {}
        \/ stream.conn = "broken"
        \/ stream.ctx = "canceled") ~> (stream.pc = "closed" /\ stream.conn = "released")

\* A subscription was ended by the consumer's context while the task is still
\* running at the backend.
C26_Witness ==
    /\ stream.cause = "context"
    /\ stream.closes = 1
    /\ stream.conn = "released"
    /\ Len(stream.delivered) = 1
    /\ task.state = "working"

\* C27 (task protocol): a SendTask returns either the Task in the terminal
\* state the backend holds, or the timeout error, never a Task in a
\* non-terminal state; its return, by timeout or not, changes nothing at the
\* backend (no cancellation is requested), so the task may still complete
\* after a timeout.
C27_SendReturnsTerminalOrTimeout ==
    /\ [](\A a \in Clients :
            (rpc[a].op = "send" /\ rpc[a].pc = "idle") =>
                rpc[a].result \in Terminal \cup {DeadlineExceeded})
    /\ [][\A a \in Clients :
             (rpc[a].op = "send" /\ rpc[a].pc = "wait" /\ rpc'[a].pc = "idle") =>
                /\ rpc'[a].result # DeadlineExceeded => rpc'[a].result = task.state
                /\ task' = task
                /\ stream' = stream]_vars

\* A SendTask timed out before the task had ended, no cancellation was ever
\* requested, and the task has completed since.
C27_Witness ==
    /\ rpc["a1"].op = "send" /\ rpc["a1"].pc = "idle"
    /\ rpc["a1"].result = DeadlineExceeded
    /\ rpc["a2"].op = "get" /\ rpc["a2"].result = "working"
    /\ ~task.cancel
    /\ task.state = "completed"

\* CancelTask of thread a has returned without error.
Accepted(a) ==
    rpc[a].op = "cancel" /\ rpc[a].pc = "idle" /\ rpc[a].reply = "accepted"

EndToEndExpected(events) ==
    /\ \E i \in 1..Len(events) : events[i] = StatusUpdate("working", FALSE)
    /\ \E i \in 1..Len(events) : events[i].type = "artifact"
    /\ Finals(events) = {Len(events)}
    /\ events[Len(events)] = StatusUpdate("completed", TRUE)
    /\ \A i \in 1..Len(events) : events[i].type # "error"

\* C29 (task protocol): a subscription for a multi-artifact task on a
\* well-behaved backend is eventually closed, and when its channel is closed
\* the consumer has received at least one Working StatusUpdate, at least one
\* ArtifactUpdate and exactly one final StatusUpdate, Completed and last, with
\* no error event.
C29_EndToEndScenario ==
    /\ [](stream.pc = "closed" => EndToEndExpected(stream.delivered))
    /\ (stream.pc = "open") ~> (stream.pc = "closed")

\* The subscription of the scenario has been closed after the final event,
\* with both artifacts delivered, and a poller has read Completed.
C29_Witness ==
    /\ stream.pc = "closed"
    /\ stream.cause = "final"
    /\ Len(stream.delivered) = MaxArtifacts + 2
    /\ task.state = "completed"
    /\ rpc["a1"].result = "completed"

\* C30: when an Update() returns nil, the credential index holds exactly the
\* key hashes the source just read lists, each under a user that lists it,
\* the user-subscription map exactly the users with subscriptions and their
\* lists, and the backend registry exactly the source's backends; and a key
\* hash, user or slug that neither the snapshot nor the source holds is not
\* resolved: no user, no subscriptions, ErrNotFound.
C30_RebuiltWholesale ==
    /\ [][\A t \in Updaters :
             (upd[t].pc = "return" /\ upd'[t].res = "ok") =>
                LET y == upd[t].data.doc
                    subscribed == {u \in DOMAIN y.users : y.users[u].subscribes # <<>>}
                IN  /\ DOMAIN c'.userKeyHashes = KeysOf(y.users)
                    /\ \A k \in KeysOf(y.users) :
                          k \in Range(y.users[c'.userKeyHashes[k]].keys)
                    /\ c'.userSubscribes = [u \in subscribed |-> y.users[u].subscribes]
                    /\ c'.backends =
                          [s \in DOMAIN y.backends |->
                              [URL |-> y.backends[s].url, Bearer |-> y.backends[s].bearer]]]_vars
    /\ [][\A r \in Readers :
             /\ (/\ Returns(r, "GetUserIDByKeyHash")
                 /\ rd[r].arg \notin DOMAIN c.userKeyHashes
                 /\ rd[r].arg \notin KeysOf(file.doc.users)) => rd'[r].val = Str("")
             /\ (/\ Returns(r, "GetUserSubscribes")
                 /\ rd[r].arg \notin DOMAIN c.userSubscribes) => rd'[r].val = Copy(<<>>)
             /\ (/\ Returns(r, "GetBackend")
                 /\ rd[r].arg \notin DOMAIN c.backends) =>
                    rd'[r].val = NilPtr /\ rd'[r].err = ErrNotFound]_vars

\* A reader still holds the backend s1 it was handed from an earlier
\* snapshot; a reload of a source that lists neither s1 nor the key hash k1
\* has returned nil since, and the registry and the index hold that source's
\* entries only.
C30_Witness ==
    /\ rd["r1"].val = [Ptr("s1") EXCEPT !.live = FALSE]
    /\ upd["m1"].res = "ok" /\ upd["m1"].pc = "idle"
    /\ mu = Unlocked
    /\ file = FileOf(DocTwo)
    /\ c.serverName = "two"
    /\ DOMAIN c.backends = {"s2"}
    /\ DOMAIN c.userKeyHashes = {"k2", ""}
    /\ DOMAIN c.userSubscribes = {"alice"}

\* C31: the snapshot changes only in a step taken while the exclusive lock
\* is held, and an accessor reads a snapshot field only while its thread holds
\* the shared lock; SetListenAddr and InfoHandler are among the methods.
C31_ReadersWriterDiscipline ==
    [][/\ c' # c => mu.writer # None
       /\ \A r \in Readers :
            (rd'[r] # rd[r] /\ rd'[r].pc = "idle" /\ rd'[r].op # "") =>
                r \in mu.readers]_vars

\* C32: whenever no watcher goroutine is alive (none was started, or the last
\* one has exited) and IsWatching() can return, it returns false; and a
\* StartWatcher that returns nil when no goroutine is alive has started one.
C32_IsWatchingMeansAlive ==
    /\ []((w.mu = None /\ \A g \in Goroutines : ~Alive(g)) => ~IsWatching)
    /\ [][\A p \in Controllers :
             (/\ ctl[p].pc = "start" /\ ctl'[p].pc = "idle" /\ ctl'[p].last = "start"
              /\ \A g \in Goroutines : ~Alive(g)) =>
                \E g \in Goroutines : Alive(g)']_vars

\* C33: when an Update() rebuilds the credential index from a source whose
\* users section is the one the current index was built from, the new index
\* is the same as the current one: a key hash listed under two users resolves
\* to the same user after every reload of the same content.
C33_ReloadIsDeterministic ==
    [][\A t \in Updaters :
         (/\ upd[t].pc = "users" /\ upd'[t].pc # "users"
          /\ LET users == upd[t].data.doc.users IN
             c.userKeyHashes \in {KeyIndex(users, order) : order \in Perms(DOMAIN users)}) =>
            c'.userKeyHashes = c.userKeyHashes]_vars

\* C35 (yaml.go): GetA2ACardBaseInfo always returns a non-empty name, version
\* and input and output mode lists, the defaults "Gate4AI A2A Agent", "1.0.0"
\* and ["text"] standing in for a field the snapshot has empty; and when an
\* Update() of a source without the a2a section returns nil, every A2A field
\* of the snapshot is empty or nil, whatever it held before.
C35_A2ADefaults ==
    /\ [][\A r \in Readers :
             Returns(r, "GetA2ACardBaseInfo") =>
                LET info == rd'[r].val.v IN
                /\ rd'[r].err = Nil
                /\ info.Name # "" /\ info.Version # ""
                /\ info.DefaultInputModes # <<>> /\ info.DefaultOutputModes # <<>>
                /\ info.Name = IF c.a2aAgentNameValue = "" THEN "Gate4AI A2A Agent"
                               ELSE c.a2aAgentNameValue
                /\ c.a2aAgentVersionValue = "" => info.Version = "1.0.0"
                /\ c.a2aDefaultInputModesValue = <<>> => info.DefaultInputModes = <<"text">>
                /\ c.a2aDefaultOutputModesValue = <<>> => info.DefaultOutputModes = <<"text">>
                /\ info.Description = c.a2aAgentDescriptionValue]_vars
    /\ [][\A t \in Callers :
             (upd[t].pc = "return" /\ upd'[t].res = "ok"
              /\ ~upd[t].data.doc.a2a.present) =>
                /\ c'.a2aAgentNameValue = "" /\ c'.a2aAgentVersionValue = ""
                /\ c'.a2aAgentDescriptionValue = Nil
                /\ c'.a2aDefaultInputModesValue = <<>>
                /\ c'.a2aDefaultOutputModesValue = <<>>]_vars

\* Both callers have reloaded, the snapshot is that of a source without the
\* a2a section, and the card a reader was handed has the default name, the
\* default output modes and no description.
C35_Witness ==
    /\ upd["m1"].res = "ok" /\ upd["m2"].res = "ok"
    /\ file = FileOf(DocOne)
    /\ c.serverName = "one"
    /\ c.a2aAgentNameValue = ""
    /\ rd["r1"].op = "GetA2ACardBaseInfo" /\ rd["r1"].pc = "idle"
    /\ rd["r1"].val.kind = "copy"
    /\ rd["r1"].val.v.Name = "Gate4AI A2A Agent"
    /\ rd["r1"].val.v.Description = Nil
    /\ rd["r1"].val.v.DefaultOutputModes = <<"text">>

\* C34 (part_000): no thread holds the watcher mutex and the snapshot lock
\* at the same time; neither lock is held forever; and a goroutine that has
\* taken an event gets through its handling, the reload included, back to
\* the select (or exits), so that no call waits for a lock forever.
C34_NoDeadlock ==
    /\ [](\A x \in Operators \cup Goroutines \cup Reloaders \cup Readers :
            ~(w.mu = x /\ (mu.writer = x \/ x \in mu.readers)))
    /\ (w.mu # None) ~> (w.mu = None)
    /\ (mu.writer # None) ~> (mu.writer = None)
    /\ (mu.readers # {}) ~> (mu.readers = {})
    /\ \A g \in Goroutines :
          (go[g].pc \in {"check", "locked", "reload"}) ~> (go[g].pc \in {"select", "exited"})

\* A watcher goroutine is inside its reload, holding the snapshot lock, while
\* the operator is inside StopWatcher, holding the watcher mutex.
C34_Witness ==
    /\ \E g \in Goroutines : go[g].pc = "reload" /\ mu.writer = g
    /\ w.mu = "ctl"
    /\ ctl["ctl"].pc = "stop"

====
